---- MODULE Spec2Model ----
(***************************************************************************)
(* Pipeline execution engine (src/src/pipeline_engine.py), its Celery task *)
(* wrapper (src/src/tasks.py), the manual-run endpoint                     *)
(* (src/src/routers/pipelines.py) and the background scheduler             *)
(* (src/src/scheduler.py), over the persisted Pipeline / PipelineStep /    *)
(* PipelineRun records of src/src/infrastructure/models.py.                *)
(***************************************************************************)
EXTENDS Integers, Sequences, FiniteSets, TLC

VARIABLES
    clock,      \* datetime.utcnow(), in ticks
    pipelines,  \* table pipelines (with its pipeline_steps), by id
    runs,       \* table pipeline_runs: runs[id] is the committed row
    tasks,      \* execute_pipeline_task invocations: message + engine state
    sched,      \* the scheduler loop thread: position and locals
    triggers,   \* history: committed scheduler triggers
    lastEval,   \* history: the scheduler's latest trigger evaluation
    cache,      \* the step snapshots under cache/, by (pipeline id, step order)
    calls,      \* history: the StepExecutor.run_step calls made so far
    life,       \* PipelineScheduler.running / .thread, its loop threads and callers
    testers     \* the clients of the step-test endpoint and their requests in progress

vars == <<clock, pipelines, runs, tasks, sched, triggers, lastEval, cache, calls, life, testers>>

\* None / SQL NULL of a nullable column (every stored number is >= 0)
NULL == -1

-----------------------------------------------------------------------------
\* Bounds of the model

\* the clock stops advancing here
MaxClock == 8
\* ticks per wall-clock minute (60 s in the program)
TicksPerMinute == 2
\* minutes per calendar day (1440 in the program)
MinutesPerDay == 2
\* cap on pipeline_runs rows
MaxRuns == 2
\* cap on task messages delivered a second time
MaxRedeliver == 1
\* cap on run_step calls
MaxCalls == 2
\* step orders run_step is called with: 0 .. MaxOrder
MaxOrder == 2
\* cap on start() and stop() calls
MaxOps == 3

\* direct invocations of the Celery task
MaxDirect == 2

\* step-test requests made by the testers together
MaxTests == 3

TicksPerDay == TicksPerMinute * MinutesPerDay

PipelineIds == {1, 2}

-----------------------------------------------------------------------------
\* Pipeline steps and step handlers

Step(n, t, o, c) == [name |-> n, step_type |-> t, order |-> o, cfg |-> c]

\* The step lists a pipeline is created with (PipelineCreate.steps, in
\* insertion order; `order` is any integer the caller sends).
StepLists ==
    { << >>,
      << Step("s1", "extraction", 0, "ok") >>,
      << Step("s1", "extraction", 0, "ok"),
         Step("s2", "preprocessing", 1, "target"),
         Step("s3", "training", 2, "ok") >>,
      << Step("s1", "training", 2, "ok"),
         Step("s2", "extraction", 0, "ok"),
         Step("s3", "preprocessing", 1, "target") >>,
      << Step("s1", "extraction", 0, "ok"),
         Step("s2", "training", 1, "ok"),
         Step("s3", "save", 2, "ok") >>,
      << Step("s1", "extraction", 0, "ok"),
         Step("s2", "preprocessing", 0, "notarget"),
         Step("s3", "save", 1, "ok") >>,
      << Step("s1", "extraction", 0, "ok"),
         Step("s2", "custom", 1, "ok"),
         Step("s3", "save", 2, "ok") >>,
      << Step("s1", "extraction", 0, "bad"),
         Step("s2", "prediction", 1, "uri"),
         Step("s3", "save", 2, "bad") >> }

\* sorted(pipeline.steps, key=lambda x: x.order): Python's sort is stable
InsertByOrder(x, s) ==
    LET before == SelectSeq(s, LAMBDA y : y.order <= x.order)
        after  == SelectSeq(s, LAMBDA y : y.order > x.order)
    IN  before \o <<x>> \o after

RECURSIVE SortedSteps(_)
SortedSteps(steps) ==
    IF steps = << >> THEN << >>
    ELSE InsertByOrder(steps[Len(steps)], SortedSteps(SubSeq(steps, 1, Len(steps) - 1)))

\* the two ways a handler ends: it raises e, or returns after logging l
Raise(h, ctx, e) == [handler |-> h, ok |-> FALSE, ctx |-> ctx, err |-> e, log |-> ""]

Return(h, ctx, l) == [handler |-> h, ok |-> TRUE, ctx |-> ctx, err |-> "", log |-> l]

\* _step_extraction
StepExtraction(cfg, ctx) ==
    IF cfg = "bad" THEN { Raise("_step_extraction", ctx, "extraction_config") }
    ELSE { Raise("_step_extraction", ctx, "external"), Return("_step_extraction", ctx \cup {"data"}, "Extracted rows") }

\* _step_preprocessing
StepPreprocessing(cfg, ctx) ==
    IF "data" \notin ctx THEN { Raise("_step_preprocessing", ctx, "no_data") }
    ELSE { Raise("_step_preprocessing", ctx, "external"),
           IF cfg = "target"
           THEN Return("_step_preprocessing", ctx \cup {"X_train", "X_test", "y_train", "y_test", "preprocessor"},
                       "Preprocessing completed (Train/Test split)")
           ELSE Return("_step_preprocessing", ctx \cup {"data"}, "Preprocessing completed (Inference mode)") }

\* variant of the definition below: task_type is written before X_train is looked for
StepTrainingLateCheck(cfg, ctx) ==
    IF "X_train" \notin ctx THEN { Raise("_step_training", ctx \cup {"task_type"}, "no_X_train") }
    ELSE IF ~ ({"y_train", "X_test", "y_test"} \subseteq ctx)
         THEN { Raise("_step_training", ctx \cup {"task_type"}, "KeyError") }
         ELSE { Raise("_step_training", ctx \cup {"task_type"}, "external"),
                Return("_step_training", ctx \cup {"task_type", "model", "run_id"}, "Training completed") }

\* _step_training
StepTraining(cfg, ctx) ==
    IF "X_train" \notin ctx THEN { Raise("_step_training", ctx, "no_X_train") }
    ELSE IF ~ ({"y_train", "X_test", "y_test"} \subseteq ctx)
         THEN { Raise("_step_training", ctx \cup {"task_type"}, "KeyError") }
         ELSE { Raise("_step_training", ctx \cup {"task_type"}, "external"),
                Return("_step_training", ctx \cup {"task_type", "model", "run_id"}, "Training completed") }

\* _step_prediction
StepPrediction(cfg, ctx) ==
    IF "X_test" \notin ctx /\ "data" \notin ctx THEN { Raise("_step_prediction", ctx, "no_data_for_prediction") }
    ELSE IF cfg # "uri" /\ "run_id" \notin ctx THEN { Raise("_step_prediction", ctx, "no_model_uri") }
    ELSE { Raise("_step_prediction", ctx, "external"), Return("_step_prediction", ctx \cup {"data"}, "Prediction completed") }

\* _step_save
StepSave(cfg, ctx) ==
    IF "data" \notin ctx THEN { Raise("_step_save", ctx, "no_data") }
    ELSE IF cfg = "bad" THEN { Raise("_step_save", ctx, "save_config") }
    ELSE { Raise("_step_save", ctx, "external"), Return("_step_save", ctx, "Saved rows") }

\* _execute_step: dispatch on step_type; the set of outcomes the handler can have
ExecuteStep(step, ctx) ==
    CASE step.step_type = "extraction"    -> StepExtraction(step.cfg, ctx)
      [] step.step_type = "preprocessing" -> StepPreprocessing(step.cfg, ctx)
      [] step.step_type = "training"      -> StepTraining(step.cfg, ctx)
      [] step.step_type = "prediction"    -> StepPrediction(step.cfg, ctx)
      [] step.step_type = "save"          -> StepSave(step.cfg, ctx)
      [] OTHER                            -> { Raise("none", ctx, "unknown_step_type") }

-----------------------------------------------------------------------------
\* Persisted rows

LogLine(k, n, t) == [kind |-> k, name |-> n, text |-> t]

\* PipelineRun(pipeline_id=..., status="pending") as inserted at commit
NewRun(pid) ==
    [pipeline_id |-> pid, status |-> "pending", logs |-> << >>, completed_at |-> NULL]

\* variant of the definition below: an engine that starts from the pipeline's first snapshot
NewTaskFromSnapshot(pid, rid, origin) ==
    [pipeline_id |-> pid, run_id |-> rid, origin |-> origin,
     pc |-> "queued", steps |-> << >>, pos |-> 0,
     context |-> IF <<pid, 0>> \in DOMAIN cache THEN cache[<<pid, 0>>].keys ELSE {},
     session |-> "none", result |-> "none", task |-> "none", error |-> "",
     invoked |-> << >>, seen |-> << >>]

\* execute_pipeline_task.delay(pipeline_id, run_id): the message and the
\* state of the PipelineEngine that will serve it
NewTask(pid, rid, origin) ==
    [pipeline_id |-> pid, run_id |-> rid, origin |-> origin,
     pc |-> "queued", steps |-> << >>, pos |-> 0, context |-> {},
     session |-> "none", result |-> "none", task |-> "none", error |-> "",
     invoked |-> << >>, seen |-> << >>]

\* _log: append one line to the run's logs and commit
Log(rs, rid, line) == [rs EXCEPT ![rid].logs = @ \o <<line>>]


\* PipelineEngine.__init__: run_record is None until run loads one
NoRunRecord == NULL

\* _log on an engine whose run_record may be None: the line is persisted only
\* when there is a run record
LogIfRecorded(rs, rid, line) == IF rid = NoRunRecord THEN rs ELSE Log(rs, rid, line)

-----------------------------------------------------------------------------
\* Manual run endpoint and the Celery task around PipelineEngine.run

\* POST /pipelines/{pipeline_id}/run: insert a pending run, commit, then delay()
\* (which raises when the broker cannot be reached)
RunPipeline(p) ==
    /\ p \in DOMAIN pipelines
    /\ Len(runs) < MaxRuns
    /\ runs' = Append(runs, NewRun(p))
    /\ \E delivered \in BOOLEAN :
          tasks' = IF delivered THEN Append(tasks, NewTask(p, Len(runs) + 1, "manual"))
                   ELSE tasks
    /\ UNCHANGED <<cache, calls, life, testers, clock, pipelines, sched, triggers, lastEval>>

\* execute_pipeline_task: "success" unless engine.run raised, which is re-raised
TaskResult(outcome) == IF outcome = "raised" THEN "failed" ELSE "success"

\* variant of the definition below: a run that fails without the error line being appended
FailRunNoLog(rs, rid, e) ==
    [rs EXCEPT ![rid].status = "failed", ![rid].completed_at = clock]

\* the except block of run: failed, completed_at, the error line
FailRun(rs, rid, e) ==
    Log([rs EXCEPT ![rid].status = "failed", ![rid].completed_at = clock],
        rid, LogLine("failed", "", e))

\* the engine after `raise e` and finally: db.close(), and the task around it
Raised(t, e) == [t EXCEPT !.pc = "done", !.session = "closed", !.result = "raised",
                          !.task = TaskResult("raised"), !.error = e]

\* run, first part: status running, logs reset to the starting line, commit
StartRun(rs, rid) ==
    [rs EXCEPT ![rid].status = "running",
               ![rid].logs = << LogLine("start", "", "Starting pipeline execution...") >>]

\* variant of the definition below: an engine that raises when the run is absent
RunNotFoundRaises(t) == Raised([t EXCEPT !.session = "open"], "run_not_found")

\* the engine after `return` for an absent run: None to the task, which
\* reports success; the session is left as it was opened
RunNotFound(t) ==
    [t EXCEPT !.pc = "done", !.session = "open", !.result = "none_returned",
              !.task = TaskResult("none_returned")]

\* run, up to the try block; an absent run is logged and None returned
EngineStart(t) ==
    /\ tasks[t].pc = "queued"
    /\ IF tasks[t].run_id \in DOMAIN runs
       THEN /\ runs' = StartRun(runs, tasks[t].run_id)
            /\ tasks' = [tasks EXCEPT ![t].pc = "started", ![t].session = "open"]
       ELSE /\ runs' = runs
            /\ tasks' = [tasks EXCEPT ![t] = RunNotFound(@)]
    /\ UNCHANGED <<cache, calls, life, testers, clock, pipelines, sched, triggers, lastEval>>

\* run: load the pipeline and sort its steps; a missing pipeline raises
EngineLoad(t) ==
    /\ tasks[t].pc = "started"
    /\ IF tasks[t].pipeline_id \in DOMAIN pipelines
       THEN /\ tasks' = [tasks EXCEPT ![t].pc = "loop",
                           ![t].steps = SortedSteps(pipelines[tasks[t].pipeline_id].steps)]
            /\ runs' = runs
       ELSE /\ tasks' = [tasks EXCEPT ![t] = Raised(@, "pipeline_not_found")]
            /\ runs' = FailRun(runs, tasks[t].run_id, "pipeline_not_found")
    /\ UNCHANGED <<cache, calls, life, testers, clock, pipelines, sched, triggers, lastEval>>

\* run, loop head: the line naming the step
StepLog(t) ==
    /\ tasks[t].pc = "loop"
    /\ tasks[t].pos < Len(tasks[t].steps)
    /\ LET step == tasks[t].steps[tasks[t].pos + 1]
       IN  runs' = Log(runs, tasks[t].run_id, LogLine("step", step.name, step.step_type))
    /\ tasks' = [tasks EXCEPT ![t].pc = "handler"]
    /\ UNCHANGED <<cache, calls, life, testers, clock, pipelines, sched, triggers, lastEval>>

\* the engine after a handler returned: its writes stay in self.context and
\* the loop moves to the next step
AfterReturn(t, o) ==
    [t EXCEPT !.pc = "loop", !.pos = @ + 1, !.context = o.ctx]

\* variant of the definition below: an engine that notes the error and goes on to the next step
AfterRaiseContinue(t, o) ==
    [t EXCEPT !.pc = "loop", !.pos = @ + 1, !.error = o.err]

\* the engine after a handler raised: the except block ends the run
\* (self.context stays as the handler left it)
AfterRaise(t, o) == [Raised(t, o.err) EXCEPT !.context = o.ctx]

\* run, loop body: _execute_step, then the next iteration or the except block
StepExec(t) ==
    /\ tasks[t].pc = "handler"
    /\ LET cur  == tasks[t]
           step == cur.steps[cur.pos + 1]
       IN  \E o \in ExecuteStep(step, cur.context) :
              LET called == [cur EXCEPT
                                !.invoked = Append(@, [step |-> step, handler |-> o.handler]),
                                !.seen = Append(@, cur.context)]
              IN  IF o.ok
                  THEN /\ tasks' = [tasks EXCEPT ![t] = AfterReturn(called, o)]
                       /\ runs' = Log(runs, cur.run_id, LogLine("info", step.name, o.log))
                  ELSE /\ tasks' = [tasks EXCEPT ![t] = AfterRaise(called, o)]
                       /\ runs' = FailRun(runs, cur.run_id, o.err)
    /\ UNCHANGED <<cache, calls, life, testers, clock, pipelines, sched, triggers, lastEval>>

\* variant of the definition below: a completion that leaves completed_at unset
CompleteRunNoStamp(rs, rid) ==
    Log([rs EXCEPT ![rid].status = "completed"],
        rid, LogLine("done", "", "Pipeline execution completed successfully."))

\* run, after the loop: completed, completed_at, the success line
CompleteRun(rs, rid) ==
    Log([rs EXCEPT ![rid].status = "completed", ![rid].completed_at = clock],
        rid, LogLine("done", "", "Pipeline execution completed successfully."))

\* run, end of the try block: return the run id; finally: db.close()
EngineComplete(t) ==
    /\ tasks[t].pc = "loop"
    /\ tasks[t].pos = Len(tasks[t].steps)
    /\ runs' = CompleteRun(runs, tasks[t].run_id)
    /\ tasks' = [tasks EXCEPT ![t].pc = "done", ![t].session = "closed",
                              ![t].result = "id_returned",
                              ![t].task = TaskResult("id_returned")]
    /\ UNCHANGED <<cache, calls, life, testers, clock, pipelines, sched, triggers, lastEval>>

\* a task message delivered to a worker a second time
Redeliver(t) ==
    /\ tasks[t].pc # "queued"
    /\ Cardinality({u \in DOMAIN tasks : tasks[u].origin = "redelivery"}) < MaxRedeliver
    /\ tasks' = Append(tasks, NewTask(tasks[t].pipeline_id, tasks[t].run_id, "redelivery"))
    /\ UNCHANGED <<cache, calls, life, testers, clock, pipelines, runs, sched, triggers, lastEval>>

\* execute_pipeline_task called with ids of the caller's choosing: the run id
\* may name a run that exists or one that does not
ExecutePipelineTask(pid, rid) ==
    /\ Cardinality({u \in DOMAIN tasks : tasks[u].origin = "direct"}) < MaxDirect
    /\ tasks' = Append(tasks, NewTask(pid, rid, "direct"))
    /\ UNCHANGED <<cache, calls, life, testers, clock, pipelines, runs, sched, triggers, lastEval>>

-----------------------------------------------------------------------------
\* Scheduler: _run_loop, _check_schedules, _trigger_pipeline

\* now.strftime("%H:%M"), as the index of the minute within its day
HHMM(t) == (t % TicksPerDay) \div TicksPerMinute

\* datetime.date()
Date(t) == t \div TicksPerDay

\* variant of the definition below: an interval test that needs more than the interval to elapse
IntervalDueStrict(p, now) ==
    \/ p.last_run = NULL
    \/ now - p.last_run > p.schedule_interval

\* interval branch of _check_schedules
IntervalDue(p, now) ==
    \/ p.last_run = NULL
    \/ now - p.last_run >= p.schedule_interval

\* variant of the definition below: a daily test without the last-run-date comparison
DailyDueNoDateGuard(p, now) ==
    p.schedule_time = HHMM(now)

\* variant of the definition below: a daily test that accepts a last_run of today
DailyDueSameDay(p, now) ==
    /\ p.schedule_time = HHMM(now)
    /\ \/ p.last_run = NULL
       \/ Date(p.last_run) <= Date(now)

\* daily branch of _check_schedules
DailyDue(p, now) ==
    /\ p.schedule_time = HHMM(now)
    /\ \/ p.last_run = NULL
       \/ Date(p.last_run) < Date(now)

IntervalMode(p) == p.schedule_interval # NULL /\ p.schedule_interval > 0

DailyMode(p) == ~ IntervalMode(p) /\ p.schedule_time # NULL

\* variant of the definition below: the daily time is looked at first
ShouldRunTimeFirst(p, now) ==
    IF p.schedule_time # NULL THEN DailyDue(p, now)
    ELSE IF IntervalMode(p) THEN IntervalDue(p, now)
    ELSE FALSE

\* should_run as _check_schedules computes it for one pipeline
ShouldRun(p, now) ==
    IF IntervalMode(p) THEN IntervalDue(p, now)
    ELSE IF DailyMode(p) THEN DailyDue(p, now)
    ELSE FALSE

\* no evaluation recorded
NoEval == [pipeline_id |-> NULL, now |-> 0, last_run |-> NULL, should_run |-> FALSE]

Idle == [pc |-> "sleep", now |-> 0, list |-> << >>, i |-> 0,
         last_run |-> NULL, run_id |-> NULL, expired |-> FALSE, snap |-> << >>]

\* the loaded attributes of the queried instances, as the session holds them
\* until a commit or rollback expires them
Loaded(enabled) == [p \in enabled |-> pipelines[p]]

\* db.commit() / db.rollback(): every instance of the session is expired
Expire(s) ==
    IF s.pc = "sleep" THEN s ELSE [s EXCEPT !.expired = TRUE, !.snap = << >>]

\* the orders in which the un-ordered query can return the enabled pipelines
Orderings(S) ==
    { q \in [1..Cardinality(S) -> S] : \A a, b \in DOMAIN q : a # b => q[a] # q[b] }

\* after one pipeline is dealt with: the next of the list, or finally: db.close()
Advance(s) ==
    IF s.i < Len(s.list)
    THEN [s EXCEPT !.pc = "eval", !.i = @ + 1, !.last_run = NULL, !.run_id = NULL]
    ELSE Idle

\* _check_schedules, up to the loop: query the enabled pipelines, take now
PollBegin ==
    /\ sched.pc = "sleep"
    /\ Len(runs) < MaxRuns
    /\ LET enabled == {p \in DOMAIN pipelines : pipelines[p].schedule_enabled = 1}
       IN  \E q \in Orderings(enabled) :
              sched' = IF q = << >> THEN Idle
                       ELSE [Idle EXCEPT !.pc = "eval", !.now = clock, !.list = q, !.i = 1,
                                         !.snap = Loaded(enabled)]
    /\ lastEval' = NoEval
    /\ UNCHANGED <<cache, calls, life, testers, clock, pipelines, runs, tasks, triggers>>

\* one iteration of the loop over the pipelines, up to the call of _trigger_pipeline
Evaluate ==
    /\ sched.pc = "eval"
    /\ LET pid == sched.list[sched.i]
           p   == IF sched.expired THEN pipelines[pid] ELSE sched.snap[pid]
           due == ShouldRun(p, sched.now)
       IN  /\ lastEval' = [pipeline_id |-> pid, now |-> sched.now, last_run |-> p.last_run,
                           should_run |-> due]
           /\ sched' = IF due THEN [sched EXCEPT !.pc = "trigger"] ELSE Advance(sched)
    /\ UNCHANGED <<cache, calls, life, testers, clock, pipelines, runs, tasks, triggers>>

\* what is left of the cycle when reading a pipeline's attributes raises
EvaluateRaisesAborts(s) == Idle

\* reading an attribute of an instance that a commit or rollback of this session
\* expired reloads the row, and the reload can raise: nothing in the loop
\* catches it, so it leaves _check_schedules and is caught in _run_loop
EvaluateRaises ==
    /\ sched.pc = "eval"
    /\ sched.expired
    /\ sched' = EvaluateRaisesAborts(sched)
    /\ lastEval' = NoEval
    /\ UNCHANGED <<cache, calls, life, testers, clock, pipelines, runs, tasks, triggers>>

\* _trigger_pipeline: refetch, add the run, set last_run (steps 1-3)
TriggerStage ==
    /\ sched.pc = "trigger"
    /\ sched' = IF sched.list[sched.i] \in DOMAIN pipelines
                THEN [sched EXCEPT !.pc = "commit", !.last_run = clock]
                ELSE Advance(sched)
    /\ lastEval' = NoEval
    /\ UNCHANGED <<cache, calls, life, testers, clock, pipelines, runs, tasks, triggers>>

\* variant of the definition below: a commit that does not write the run row
InsertRunDeferred(rs, pid) == rs

\* the rows db.commit() writes: the added run ...
InsertRun(rs, pid) == Append(rs, NewRun(pid))

\* variant of the definition below: a commit that does not write last_run
KeepLastRun(ps, pid, t) == ps

\* ... and the pipeline's new last_run
AdvanceLastRun(ps, pid, t) == [ps EXCEPT ![pid].last_run = t]

\* variant of the definition below: a rollback after which the added run is still written
RollbackKeepsRun(rs, pid) == Append(rs, NewRun(pid))

\* db.rollback() in the except block: the run added to the session is discarded
Rollback(rs, pid) == rs

\* _trigger_pipeline: db.commit() (step 4); when it raises, the except block
\* rolls the transaction back
TriggerCommit ==
    /\ sched.pc = "commit"
    /\ LET pid == sched.list[sched.i]
       IN  \/ /\ Len(runs) < MaxRuns
              /\ runs' = InsertRun(runs, pid)
              /\ pipelines' = AdvanceLastRun(pipelines, pid, sched.last_run)
              /\ triggers' = Append(triggers, [pipeline_id |-> pid, poll |-> sched.now,
                                               last_run |-> sched.last_run,
                                               run_id |-> Len(runs) + 1])
              /\ sched' = Expire([sched EXCEPT !.pc = "dispatch", !.run_id = Len(runs) + 1])
           \/ /\ sched' = Expire(Advance(sched))
              /\ runs' = Rollback(runs, pid)
              /\ UNCHANGED <<pipelines, triggers>>
    /\ UNCHANGED <<cache, calls, life, testers, clock, tasks, lastEval>>

\* _trigger_pipeline: execute_pipeline_task.delay (step 5); when it raises, the
\* except block's rollback has nothing left to undo
TriggerDispatch ==
    /\ sched.pc = "dispatch"
    /\ \E delivered \in BOOLEAN :
          tasks' = IF delivered
                   THEN Append(tasks, NewTask(sched.list[sched.i], sched.run_id, "scheduler"))
                   ELSE tasks
    /\ sched' = Expire(Advance(sched))
    /\ UNCHANGED <<cache, calls, life, testers, clock, pipelines, runs, triggers, lastEval>>

\* POST /pipelines/: the pipeline row gets the next id and the steps are
\* inserted as they were sent (names are taken to be distinct)
CreatePipeline(e, t, iv, steps) ==
    /\ Len(pipelines) + 1 \in PipelineIds
    /\ pipelines' = Append(pipelines,
                        [schedule_enabled |-> e, schedule_time |-> t,
                         schedule_interval |-> iv, last_run |-> NULL, steps |-> steps])
    /\ UNCHANGED <<cache, calls, life, testers, clock, runs, tasks, sched, triggers, lastEval>>

\* PUT /pipelines/{pipeline_id}: the schedule fields are overwritten, the
\* stored steps are deleted and the steps sent are inserted, last_run is left
\* alone; a missing pipeline is a 404
UpdatePipeline(p, e, t, iv, steps) ==
    /\ p \in DOMAIN pipelines
    /\ pipelines' = [pipelines EXCEPT ![p].schedule_enabled = e,
                                      ![p].schedule_time = t,
                                      ![p].schedule_interval = iv,
                                      ![p].steps = steps]
    /\ UNCHANGED <<cache, calls, life, testers, clock, runs, tasks, sched, triggers, lastEval>>

\* time passes between two run_step calls
TickBetweenCalls ==
    /\ clock < Len(calls)
    /\ clock' = clock + 1
    /\ UNCHANGED <<pipelines, runs, tasks, sched, triggers, lastEval, cache, calls, life, testers>>

\* time passes
Tick ==
    /\ clock < MaxClock
    /\ clock' = clock + 1
    /\ UNCHANGED <<cache, calls, life, testers, pipelines, runs, tasks, sched, triggers, lastEval>>

-----------------------------------------------------------------------------
\* Interactive step testing: StepExecutor

\* an empty cache directory
NoCache == << >>

\* _get_cache_path: cache/pipeline_<pipeline id>_step_<step order>.joblib, one
\* path per pair of integers
CachePath(pid, n) == <<pid, n>>

\* context = {}: no key; the values the previews show are unset
EmptyContext == [keys |-> {}, run_id |-> NULL, predicted_at |-> NULL]

\* the step objects run_step can be given as step_override (None: the stored step)
NoOverride == [step_type |-> "none", cfg |-> "none"]

Overrides ==
    { NoOverride,
      [step_type |-> "extraction", cfg |-> "ok"],
      [step_type |-> "training", cfg |-> "ok"],
      [step_type |-> "prediction", cfg |-> "uri"] }

\* the step objects posted while other work is going on
TesterOverrides == { NoOverride, [step_type |-> "prediction", cfg |-> "uri"] }

\* next(..., None) / `if not step`
NoStep == Step("none", "none", NULL, "none")

\* run_step: the step to execute, or NoStep when the pipeline has no step of that
\* order: the override as a step of that order, else the first stored step
\* whose order matches
StepToTest(pid, n, override) ==
    IF override # NoOverride
    THEN Step("Test Step", override.step_type, n, override.cfg)
    ELSE LET steps == pipelines[pid].steps
             match == {i \in DOMAIN steps : steps[i].order = n}
         IN  IF match = {} THEN NoStep
             ELSE steps[CHOOSE i \in match : \A j \in match : i <= j]

\* the id mlflow gives the run that _step_training starts: a new one each time
FreshRunId == 1 + Cardinality({k \in DOMAIN calls : calls[k].handler = "_step_training"})

\* engine.context after the handler returned with outcome o: the keys it holds,
\* the mlflow run id written by training, and the prediction_time column that
\* prediction writes into the data (extraction replaces the data)
ContextAfter(step_type, before, o) ==
    [keys |-> o.ctx,
     run_id |-> IF step_type = "training" THEN FreshRunId ELSE before.run_id,
     predicted_at |-> IF step_type = "prediction" THEN clock
                      ELSE IF step_type = "extraction" THEN NULL
                      ELSE before.predicted_at]

\* _generate_preview
GeneratePreview(step_type, ctx) ==
    LET table == [type |-> "table", run_id |-> NULL, predicted_at |-> ctx.predicted_at]
        text  == [type |-> "text", run_id |-> NULL, predicted_at |-> NULL]
    IN  IF step_type \in {"extraction", "preprocessing"}
        THEN IF "data" \in ctx.keys THEN table ELSE text
        ELSE IF step_type = "training"
        THEN [type |-> "json",
              run_id |-> IF "run_id" \in ctx.keys THEN ctx.run_id ELSE NULL,
              predicted_at |-> NULL]
        ELSE IF step_type = "prediction"
        THEN IF "data" \in ctx.keys THEN table ELSE text
        ELSE text

NoPreview == [type |-> "none", run_id |-> NULL, predicted_at |-> NULL]

\* whether _generate_preview can raise: the table preview calls df.head(5) and
\* to_json(orient="records"), which raise for data that is not a DataFrame or
\* has duplicate column names; the other previews only read the context
PreviewCanRaise(preview) == preview.type = "table"

\* joblib.dump(engine.context, path): the file at path is created or replaced
Dump(c, path, ctx) == [k \in DOMAIN c \cup {path} |-> IF k = path THEN ctx ELSE c[k]]

\* one call of run_step as the history keeps it
Call(pid, n, override, step_type, input, handler, error, output, preview) ==
    [pipeline_id |-> pid, order |-> n, override |-> override, step_type |-> step_type,
     input |-> input, handler |-> handler, error |-> error, output |-> output,
     preview |-> preview]

\* variant of the definition below: no exemption for extraction steps
PreviousRequiredAlways(step, n) ==
    n > 0 /\ CachePath(step.pipeline_id, n - 1) \notin DOMAIN cache

\* run_step: the strict dependency on the previous step's snapshot
PreviousRequired(step, n) ==
    /\ n > 0
    /\ CachePath(step.pipeline_id, n - 1) \notin DOMAIN cache
    /\ step.step_type # "extraction"

\* variant of the definition below: the executor's engine adopts the latest run of the pipeline
ExecutorRunRecordLatest(pid) ==
    LET mine == {r \in DOMAIN runs : runs[r].pipeline_id = pid}
    IN  IF mine = {} THEN NoRunRecord ELSE CHOOSE r \in mine : \A q \in mine : q <= r

\* the run_record of the engine that run_step creates: run is never called on it
ExecutorRunRecord(pid) == NoRunRecord

\* StepExecutor(pid).run_step(n, step_override)
RunStep(pid, n, override) ==
    /\ Len(calls) < MaxCalls
    /\ LET step == IF pid \in DOMAIN pipelines THEN StepToTest(pid, n, override) ELSE NoStep
           prev == CachePath(pid, n - 1)
           raised(t, e) ==
               /\ calls' = Append(calls, Call(pid, n, override, t, EmptyContext, "none", e, EmptyContext, NoPreview))
               /\ cache' = cache
               /\ runs' = runs
       IN  IF pid \notin DOMAIN pipelines THEN raised("none", "Pipeline not found")
           ELSE IF step = NoStep THEN raised("none", "Step not found")
           ELSE IF PreviousRequired([pipeline_id |-> pid, step_type |-> step.step_type], n)
           THEN raised(step.step_type, "Previous step output not found")
           ELSE LET context == IF n > 0 /\ prev \in DOMAIN cache THEN cache[prev]
                               ELSE EmptyContext
                IN  \E o \in ExecuteStep(step, context.keys) :
                       LET after == ContextAfter(step.step_type, context, o)
                           preview == GeneratePreview(step.step_type, after)
                       IN  IF o.ok
                           THEN /\ cache' = Dump(cache, CachePath(pid, n), after)
                                /\ runs' = LogIfRecorded(runs, ExecutorRunRecord(pid),
                                                         LogLine("info", step.name, o.log))
                                /\ \/ calls' = Append(calls,
                                         Call(pid, n, override, step.step_type, context,
                                              o.handler, "", after, preview))
                                   \/ /\ PreviewCanRaise(preview)
                                      /\ calls' = Append(calls,
                                            Call(pid, n, override, step.step_type, context,
                                                 o.handler, "preview", after, NoPreview))
                           ELSE /\ cache' = cache
                                /\ runs' = runs
                                /\ calls' = Append(calls,
                                      Call(pid, n, override, step.step_type, context, o.handler,
                                           o.err, EmptyContext, NoPreview))
    /\ UNCHANGED <<clock, pipelines, tasks, sched, triggers, lastEval, life, testers>>

\* the clients that post to /pipelines/{pipeline_id}/steps/{order}/test
Testers == {1, 2}

\* a tester with no request in progress; made: the calls (indices of the
\* history) this tester has made
IdleTester(made) ==
    [pc |-> "idle", pipeline_id |-> NULL, order |-> NULL, override |-> NoOverride,
     step |-> NoStep, context |-> EmptyContext, made |-> made]

NoTesters == [u \in Testers |-> IdleTester({})]

\* requests begun so far: returned or in progress
Begun == Len(calls) + Cardinality({u \in Testers : testers[u].pc = "loaded"})

\* variant of the definition below: a dump that keeps a file already there
DumpKeepFirst(c, path, ctx) == IF path \in DOMAIN c THEN c ELSE Dump(c, path, ctx)

\* joblib.dump as run_step calls it
DumpSnapshot(c, path, ctx) == Dump(c, path, ctx)

\* run_step of tester u, up to the handler: the pipeline and the step are
\* looked up and the previous step's snapshot is loaded into the context
StepBegin(u, pid, n, override) ==
    /\ testers[u].pc = "idle"
    /\ Begun < MaxTests
    /\ LET step == IF pid \in DOMAIN pipelines THEN StepToTest(pid, n, override) ELSE NoStep
           prev == CachePath(pid, n - 1)
           raised(t, e) ==
               /\ calls' = Append(calls, Call(pid, n, override, t, EmptyContext, "none", e, EmptyContext, NoPreview))
               /\ testers' = [testers EXCEPT ![u].made = @ \cup {Len(calls) + 1}]
       IN  IF pid \notin DOMAIN pipelines THEN raised("none", "Pipeline not found")
           ELSE IF step = NoStep THEN raised("none", "Step not found")
           ELSE IF PreviousRequired([pipeline_id |-> pid, step_type |-> step.step_type], n)
           THEN raised(step.step_type, "Previous step output not found")
           ELSE /\ calls' = calls
                /\ testers' = [testers EXCEPT ![u] =
                       [pc |-> "loaded", pipeline_id |-> pid, order |-> n, override |-> override,
                        step |-> step,
                        context |-> IF n > 0 /\ prev \in DOMAIN cache THEN cache[prev]
                                    ELSE EmptyContext,
                        made |-> @.made]]
    /\ UNCHANGED <<cache, clock, pipelines, runs, tasks, sched, triggers, lastEval, life>>

\* run_step of tester u, from the handler on: _execute_step on the loaded
\* context, the dump under the step's path, the preview
StepFinish(u) ==
    /\ testers[u].pc = "loaded"
    /\ LET cur == testers[u]
           returned == [testers EXCEPT ![u] = IdleTester(cur.made \cup {Len(calls) + 1})]
       IN  \E o \in ExecuteStep(cur.step, cur.context.keys) :
              LET after == ContextAfter(cur.step.step_type, cur.context, o)
                  preview == GeneratePreview(cur.step.step_type, after)
              IN  /\ testers' = returned
                  /\ IF o.ok
                     THEN /\ cache' = DumpSnapshot(cache, CachePath(cur.pipeline_id, cur.order), after)
                          /\ runs' = LogIfRecorded(runs, ExecutorRunRecord(cur.pipeline_id),
                                                   LogLine("info", cur.step.name, o.log))
                          /\ \/ calls' = Append(calls,
                                   Call(cur.pipeline_id, cur.order, cur.override,
                                        cur.step.step_type, cur.context, o.handler, "", after,
                                        preview))
                             \/ /\ PreviewCanRaise(preview)
                                /\ calls' = Append(calls,
                                      Call(cur.pipeline_id, cur.order, cur.override,
                                           cur.step.step_type, cur.context, o.handler,
                                           "preview", after, NoPreview))
                     ELSE /\ cache' = cache
                          /\ runs' = runs
                          /\ calls' = Append(calls,
                                Call(cur.pipeline_id, cur.order, cur.override,
                                     cur.step.step_type, cur.context, o.handler, o.err,
                                     EmptyContext, NoPreview))
    /\ UNCHANGED <<clock, pipelines, tasks, sched, triggers, lastEval, life>>

-----------------------------------------------------------------------------
\* Scheduler lifecycle: start, stop and the loop threads

\* PipelineScheduler.__init__: running = False, thread = None
NoScheduler == [running |-> FALSE, thread |-> NULL, loops |-> << >>, ops |-> << >>]

\* a start() or stop() call in progress somewhere in the process
InProgress(o) == o.pc # "returned"

\* a call of start() or stop() enters the method; calls that are in progress at
\* that moment overlap with it
NewOp(name, first) ==
    LET busy == \E k \in DOMAIN life.ops : InProgress(life.ops[k])
        marked == [k \in DOMAIN life.ops |->
                      IF InProgress(life.ops[k]) THEN [life.ops[k] EXCEPT !.overlap = TRUE]
                      ELSE life.ops[k]]
    IN  Append(marked, [op |-> name, pc |-> first, target |-> NULL, overlap |-> busy])

othervars == <<clock, pipelines, runs, tasks, sched, triggers, lastEval, cache, calls, testers>>

CallStart ==
    /\ Len(life.ops) < MaxOps
    /\ life' = [life EXCEPT !.ops = NewOp("start", "check")]
    /\ UNCHANGED othervars

CallStop ==
    /\ Len(life.ops) < MaxOps
    /\ life' = [life EXCEPT !.ops = NewOp("stop", "clear")]
    /\ UNCHANGED othervars

\* start: `if self.running: return`
StartCheck(k) ==
    /\ life.ops[k].op = "start" /\ life.ops[k].pc = "check"
    /\ life' = [life EXCEPT !.ops[k].pc = IF life.running THEN "returned" ELSE "set"]
    /\ UNCHANGED othervars

\* start: self.running = True
StartSet(k) ==
    /\ life.ops[k].op = "start" /\ life.ops[k].pc = "set"
    /\ life' = [life EXCEPT !.running = TRUE, !.ops[k].pc = "spawn"]
    /\ UNCHANGED othervars

\* start: self.thread = threading.Thread(target=self._run_loop); self.thread.start()
StartSpawn(k) ==
    /\ life.ops[k].op = "start" /\ life.ops[k].pc = "spawn"
    /\ life' = [life EXCEPT !.loops = Append(@, [pc |-> "test"]),
                            !.thread = Len(life.loops) + 1,
                            !.ops[k].pc = "returned"]
    /\ UNCHANGED othervars

\* stop: self.running = False
StopClear(k) ==
    /\ life.ops[k].op = "stop" /\ life.ops[k].pc = "clear"
    /\ life' = [life EXCEPT !.running = FALSE, !.ops[k].pc = "join"]
    /\ UNCHANGED othervars

\* stop: `if self.thread:` and the call of join on it
StopJoin(k) ==
    /\ life.ops[k].op = "stop" /\ life.ops[k].pc = "join"
    /\ life' = IF life.thread = NULL
               THEN [life EXCEPT !.ops[k].pc = "returned"]
               ELSE [life EXCEPT !.ops[k].pc = "wait", !.ops[k].target = life.thread]
    /\ UNCHANGED othervars

\* stop: join returns once the joined thread has ended
StopWait(k) ==
    /\ life.ops[k].op = "stop" /\ life.ops[k].pc = "wait"
    /\ life.loops[life.ops[k].target].pc = "exited"
    /\ life' = [life EXCEPT !.ops[k].pc = "returned"]
    /\ UNCHANGED othervars

\* _run_loop: `while self.running:`
LoopTest(l) ==
    /\ life.loops[l].pc = "test"
    /\ life' = [life EXCEPT !.loops[l].pc = IF life.running THEN "check" ELSE "exited"]
    /\ UNCHANGED othervars

\* _run_loop: the call of _check_schedules, exceptions caught and logged
LoopCheck(l) ==
    /\ life.loops[l].pc = "check"
    /\ life' = [life EXCEPT !.loops[l].pc = "sleep"]
    /\ UNCHANGED othervars

\* _run_loop: up to five sleeps of one second, cut short when running is False
LoopSleep(l) ==
    /\ life.loops[l].pc = "sleep"
    /\ life' = [life EXCEPT !.loops[l].pc = "test"]
    /\ UNCHANGED othervars

-----------------------------------------------------------------------------
\* Specifications

Unscheduled(steps) ==
    [schedule_enabled |-> 0, schedule_time |-> NULL, schedule_interval |-> NULL,
     last_run |-> NULL, steps |-> steps]

\* schedule_time values: unset, or a minute of the day
ScheduleTimes == {NULL} \cup (0 .. MinutesPerDay - 1)

\* schedule_interval values: unset, zero, or a positive number of ticks
ScheduleIntervals == {NULL, 0, 3}

Scheduled(e, t, iv) ==
    [schedule_enabled |-> e, schedule_time |-> t, schedule_interval |-> iv,
     last_run |-> NULL, steps |-> << Step("s1", "extraction", 0, "ok") >>]

\* The engine driven by the manual-run endpoint, the scheduler not started.
InitEngine ==
    /\ clock = 0
    /\ pipelines \in [PipelineIds -> {Unscheduled(s) : s \in StepLists}]
    /\ runs = << >>
    /\ tasks = << >>
    /\ sched = Idle
    /\ triggers = << >>
    /\ lastEval = NoEval
    /\ cache = NoCache
    /\ calls = << >>
    /\ life = NoScheduler
    /\ testers = NoTesters

NextEngine ==
    \/ \E p \in PipelineIds : RunPipeline(p)
    \/ \E t \in DOMAIN tasks : EngineStart(t)
    \/ \E t \in DOMAIN tasks : EngineLoad(t)
    \/ \E t \in DOMAIN tasks : StepLog(t)
    \/ \E t \in DOMAIN tasks : StepExec(t)
    \/ \E t \in DOMAIN tasks : EngineComplete(t)

SpecEngine == InitEngine /\ [][NextEngine]_vars

\* The scheduler loop alone; the tasks it submits stay queued. Pipeline 1 has
\* any schedule fields, pipeline 2 is unscheduled or on an interval.
InitSched ==
    /\ clock = 0
    /\ \E e \in {0, 1}, t \in ScheduleTimes, iv \in ScheduleIntervals, other \in {0, 1} :
          pipelines = [p \in PipelineIds |->
                          IF p = 1 THEN Scheduled(e, t, iv) ELSE Scheduled(other, NULL, 3)]
    /\ runs = << >>
    /\ tasks = << >>
    /\ sched = Idle
    /\ triggers = << >>
    /\ lastEval = NoEval
    /\ cache = NoCache
    /\ calls = << >>
    /\ life = NoScheduler
    /\ testers = NoTesters

NextSched ==
    \/ Tick
    \/ PollBegin
    \/ Evaluate
    \/ EvaluateRaises
    \/ TriggerStage
    \/ TriggerCommit
    \/ TriggerDispatch

SpecSched == InitSched /\ [][NextSched]_vars

\* The scheduler and the workers: pipeline 1 is on an interval, pipeline 2 is
\* unscheduled.
InitInterval ==
    /\ clock = 0
    /\ \E iv \in {2, 3} :
          pipelines = [p \in PipelineIds |->
                          IF p = 1 THEN Scheduled(1, NULL, iv) ELSE Scheduled(0, NULL, NULL)]
    /\ runs = << >>
    /\ tasks = << >>
    /\ sched = Idle
    /\ triggers = << >>
    /\ lastEval = NoEval
    /\ cache = NoCache
    /\ calls = << >>
    /\ life = NoScheduler
    /\ testers = NoTesters

\* (one enabled pipeline: every evaluation reads a freshly loaded instance)
NextInterval ==
    \/ Tick
    \/ PollBegin
    \/ Evaluate
    \/ TriggerStage
    \/ TriggerCommit
    \/ TriggerDispatch
    \/ \E t \in DOMAIN tasks : EngineStart(t)
    \/ \E t \in DOMAIN tasks : EngineLoad(t)
    \/ \E t \in DOMAIN tasks : StepLog(t)
    \/ \E t \in DOMAIN tasks : StepExec(t)
    \/ \E t \in DOMAIN tasks : EngineComplete(t)

SpecInterval == InitInterval /\ [][NextInterval]_vars

\* Runs created by the scheduler and by the manual-run endpoint, the workers,
\* and task messages that reach a worker more than once; the clock stands still.
InitDeliver ==
    /\ clock = 0
    /\ pipelines = [p \in PipelineIds |->
                       IF p = 1 THEN Scheduled(1, NULL, 3)
                       ELSE Unscheduled(<< Step("s1", "extraction", 0, "ok") >>)]
    /\ runs = << >>
    /\ tasks = << >>
    /\ sched = Idle
    /\ triggers = << >>
    /\ lastEval = NoEval
    /\ cache = NoCache
    /\ calls = << >>
    /\ life = NoScheduler
    /\ testers = NoTesters

NextDeliver ==
    \/ PollBegin
    \/ Evaluate
    \/ TriggerStage
    \/ TriggerCommit
    \/ TriggerDispatch
    \/ \E p \in PipelineIds : RunPipeline(p)
    \/ \E t \in DOMAIN tasks : EngineStart(t)
    \/ \E t \in DOMAIN tasks : EngineLoad(t)
    \/ \E t \in DOMAIN tasks : StepLog(t)
    \/ \E t \in DOMAIN tasks : StepExec(t)
    \/ \E t \in DOMAIN tasks : EngineComplete(t)
    \/ \E t \in DOMAIN tasks : Redeliver(t)

SpecDeliver == InitDeliver /\ [][NextDeliver]_vars

\* The Celery task invoked directly, with a run id that may or may not have a
\* PipelineRun record; the one run there may be was left pending by a manual
\* run whose delay() failed.
InitDirect ==
    /\ clock = 0
    /\ \E s \in {<< Step("s1", "extraction", 0, "ok") >>,
                 << Step("s1", "extraction", 0, "ok"), Step("s2", "save", 1, "bad") >>} :
          pipelines = [p \in PipelineIds |-> Unscheduled(s)]
    /\ runs \in {<< >>, << NewRun(1) >>}
    /\ tasks = << >>
    /\ sched = Idle
    /\ triggers = << >>
    /\ lastEval = NoEval
    /\ cache = NoCache
    /\ calls = << >>
    /\ life = NoScheduler
    /\ testers = NoTesters

NextDirect ==
    \/ \E p \in PipelineIds, r \in 1 .. Len(runs) + 1 : ExecutePipelineTask(p, r)
    \/ \E t \in DOMAIN tasks : EngineStart(t)
    \/ \E t \in DOMAIN tasks : EngineLoad(t)
    \/ \E t \in DOMAIN tasks : StepLog(t)
    \/ \E t \in DOMAIN tasks : StepExec(t)
    \/ \E t \in DOMAIN tasks : EngineComplete(t)

SpecDirect == InitDirect /\ [][NextDirect]_vars

\* One poll cycle over three pipelines that are all due.
InitIsolation ==
    /\ clock = 0
    /\ pipelines = [p \in 1 .. 3 |-> Scheduled(1, NULL, 3)]
    /\ runs = << >>
    /\ tasks = << >>
    /\ sched = Idle
    /\ triggers = << >>
    /\ lastEval = NoEval
    /\ cache = NoCache
    /\ calls = << >>
    /\ life = NoScheduler
    /\ testers = NoTesters

SpecIsolation == InitIsolation /\ [][NextSched]_vars

\* The scheduler while schedules are edited through the API: pipeline 1 starts
\* disabled or enabled and is switched between disabled, interval and
\* daily-time; pipeline 2 stays disabled with an interval set.
ScheduleEdits == { <<0, NULL, 3>>, <<1, NULL, 3>>, <<0, 0, NULL>>, <<1, 0, NULL>> }

InitEdit ==
    /\ clock = 0
    /\ \E c \in ScheduleEdits :
          pipelines = [p \in PipelineIds |->
                          IF p = 1 THEN Scheduled(c[1], c[2], c[3]) ELSE Scheduled(0, NULL, 3)]
    /\ runs = << >>
    /\ tasks = << >>
    /\ sched = Idle
    /\ triggers = << >>
    /\ lastEval = NoEval
    /\ cache = NoCache
    /\ calls = << >>
    /\ life = NoScheduler
    /\ testers = NoTesters

NextEdit ==
    \/ Tick
    \/ PollBegin
    \/ Evaluate
    \/ TriggerStage
    \/ TriggerCommit
    \/ TriggerDispatch
    \/ \E c \in ScheduleEdits : UpdatePipeline(1, c[1], c[2], c[3], pipelines[1].steps)

SpecEdit == InitEdit /\ [][NextEdit]_vars

\* the cache directory after run_step(0) and run_step(1) of pipeline 1 succeeded
\* in an earlier session
TestedCache ==
    LET extracted == [EmptyContext EXCEPT !.keys = {"data"}]
        split     == [EmptyContext EXCEPT
                         !.keys = {"data", "X_train", "X_test", "y_train", "y_test", "preprocessor"}]
    IN  Dump(Dump(NoCache, CachePath(1, 0), extracted), CachePath(1, 1), split)

\* Interactive step testing of two stored pipelines while time passes; the cache
\* directory is empty or left by an earlier session.
InitTest ==
    /\ clock = 0
    /\ pipelines = [p \in PipelineIds |->
                       IF p = 1
                       THEN Unscheduled(<< Step("s1", "extraction", 0, "ok"),
                                           Step("s2", "preprocessing", 1, "target"),
                                           Step("s3", "training", 2, "ok") >>)
                       ELSE Unscheduled(<< Step("s1", "extraction", 0, "ok"),
                                           Step("s2", "preprocessing", 0, "notarget"),
                                           Step("s3", "save", 1, "ok") >>)]
    /\ runs = << >>
    /\ tasks = << >>
    /\ sched = Idle
    /\ triggers = << >>
    /\ lastEval = NoEval
    /\ cache \in {NoCache, TestedCache}
    /\ calls = << >>
    /\ life = NoScheduler
    /\ testers = NoTesters

NextTest ==
    \/ TickBetweenCalls
    \/ \E pid \in PipelineIds \cup {3}, n \in 0 .. MaxOrder, override \in Overrides :
          RunStep(pid, n, override)

SpecTest == InitTest /\ [][NextTest]_vars

\* step lists whose handlers find, or do not find, the keys they read
InputLists ==
    { << Step("s1", "preprocessing", 0, "target") >>,
      << Step("s1", "save", 0, "ok") >>,
      << Step("s1", "training", 0, "ok") >>,
      << Step("s1", "extraction", 0, "ok"), Step("s2", "training", 1, "ok") >>,
      << Step("s1", "extraction", 0, "ok"), Step("s2", "preprocessing", 1, "notarget"),
         Step("s3", "training", 2, "ok") >>,
      << Step("s1", "extraction", 0, "ok"), Step("s2", "preprocessing", 1, "target"),
         Step("s3", "training", 2, "ok"), Step("s4", "save", 3, "ok") >> }

\* The engine driven by the manual-run endpoint over pipelines whose steps may
\* lack their input.
InitHandlers ==
    /\ clock = 0
    /\ pipelines \in [PipelineIds -> {Unscheduled(s) : s \in InputLists}]
    /\ runs = << >>
    /\ tasks = << >>
    /\ sched = Idle
    /\ triggers = << >>
    /\ lastEval = NoEval
    /\ cache = NoCache
    /\ calls = << >>
    /\ life = NoScheduler
    /\ testers = NoTesters

SpecHandlers == InitHandlers /\ [][NextEngine]_vars

\* Step tests of pipeline 1 posted while the scheduler triggers it and a
\* worker serves the run; the cache directory is empty or left by an earlier
\* session.
InitWorkbench ==
    /\ clock = 0
    /\ pipelines = [p \in PipelineIds |->
                       [Unscheduled(<< Step("s1", "extraction", 0, "ok"),
                                       Step("s2", "preprocessing", 1, "target"),
                                       Step("s3", "training", 2, "ok") >>)
                          EXCEPT !.schedule_enabled = IF p = 1 THEN 1 ELSE 0,
                                 !.schedule_interval = 3]]
    /\ runs = << >>
    /\ tasks = << >>
    /\ sched = Idle
    /\ triggers = << >>
    /\ lastEval = NoEval
    /\ cache \in {NoCache, TestedCache}
    /\ calls = << >>
    /\ life = NoScheduler
    /\ testers = NoTesters

NextWorkbench ==
    \/ PollBegin
    \/ Evaluate
    \/ TriggerStage
    \/ TriggerCommit
    \/ TriggerDispatch
    \/ \E t \in DOMAIN tasks : EngineStart(t)
    \/ \E t \in DOMAIN tasks : EngineLoad(t)
    \/ \E t \in DOMAIN tasks : StepLog(t)
    \/ \E t \in DOMAIN tasks : StepExec(t)
    \/ \E t \in DOMAIN tasks : EngineComplete(t)
    \/ \E n \in 0 .. MaxOrder, override \in TesterOverrides : RunStep(1, n, override)

SpecWorkbench == InitWorkbench /\ [][NextWorkbench]_vars

\* Runs created by the scheduler and by the manual-run endpoint and served by
\* the workers, next to a cache directory that is empty or holds the snapshots
\* of pipeline 1 left by earlier step tests.
InitFullRuns ==
    /\ clock = 0
    /\ pipelines = [p \in PipelineIds |->
                       IF p = 1 THEN Scheduled(1, NULL, 3)
                       ELSE Unscheduled(<< Step("s1", "extraction", 0, "ok") >>)]
    /\ runs = << >>
    /\ tasks = << >>
    /\ sched = Idle
    /\ triggers = << >>
    /\ lastEval = NoEval
    /\ cache \in {NoCache, TestedCache}
    /\ calls = << >>
    /\ life = NoScheduler
    /\ testers = NoTesters

NextFullRuns ==
    \/ PollBegin
    \/ Evaluate
    \/ TriggerStage
    \/ TriggerCommit
    \/ TriggerDispatch
    \/ \E p \in PipelineIds : RunPipeline(p)
    \/ \E t \in DOMAIN tasks : EngineStart(t)
    \/ \E t \in DOMAIN tasks : EngineLoad(t)
    \/ \E t \in DOMAIN tasks : StepLog(t)
    \/ \E t \in DOMAIN tasks : StepExec(t)
    \/ \E t \in DOMAIN tasks : EngineComplete(t)

SpecFullRuns == InitFullRuns /\ [][NextFullRuns]_vars

\* one step of the worker that serves task t
EngineStep(t) ==
    \/ EngineStart(t)
    \/ EngineLoad(t)
    \/ StepLog(t)
    \/ StepExec(t)
    \/ EngineComplete(t)

\* the dispatcher executes every task submitted to it and every handler
\* terminates: the worker of each task keeps taking its steps
WorkersProgress ==
    \A t \in 1 .. MaxRuns : WF_vars(t \in DOMAIN tasks /\ EngineStep(t))

SpecFullRunsFair == SpecFullRuns /\ WorkersProgress

\* Pipelines created and updated through the API, from an empty table.
InitManage ==
    /\ clock = 0
    /\ pipelines = << >>
    /\ runs = << >>
    /\ tasks = << >>
    /\ sched = Idle
    /\ triggers = << >>
    /\ lastEval = NoEval
    /\ cache = NoCache
    /\ calls = << >>
    /\ life = NoScheduler
    /\ testers = NoTesters

NextManage ==
    \/ \E c \in ScheduleEdits, steps \in StepLists : CreatePipeline(c[1], c[2], c[3], steps)
    \/ \E p \in PipelineIds, c \in ScheduleEdits, steps \in StepLists :
          UpdatePipeline(p, c[1], c[2], c[3], steps)

SpecManage == InitManage /\ [][NextManage]_vars

\* Two testers posting step tests for pipeline 1, their requests served
\* concurrently; the cache directory is empty or left by an earlier session.
InitTesters ==
    /\ clock = 0
    /\ pipelines = [p \in PipelineIds |->
                       Unscheduled(<< Step("s1", "extraction", 0, "ok"),
                                      Step("s2", "preprocessing", 1, "target"),
                                      Step("s3", "training", 2, "ok") >>)]
    /\ runs = << >>
    /\ tasks = << >>
    /\ sched = Idle
    /\ triggers = << >>
    /\ lastEval = NoEval
    /\ cache \in {NoCache, TestedCache}
    /\ calls = << >>
    /\ life = NoScheduler
    /\ testers = NoTesters

NextTesters ==
    \/ \E u \in Testers, n \in 0 .. MaxOrder, override \in TesterOverrides :
          StepBegin(u, 1, n, override)
    \/ \E u \in Testers : StepFinish(u)

SpecTesters == InitTesters /\ [][NextTesters]_vars

\* The scheduler's lifecycle: start() and stop() called from any threads, and
\* the loop threads they spawn.
InitLifecycle ==
    /\ clock = 0
    /\ pipelines = [p \in PipelineIds |-> Scheduled(1, NULL, 3)]
    /\ runs = << >>
    /\ tasks = << >>
    /\ sched = Idle
    /\ triggers = << >>
    /\ lastEval = NoEval
    /\ cache = NoCache
    /\ calls = << >>
    /\ life = NoScheduler
    /\ testers = NoTesters

NextLifecycle ==
    \/ CallStart
    \/ CallStop
    \/ \E k \in DOMAIN life.ops : StartCheck(k)
    \/ \E k \in DOMAIN life.ops : StartSet(k)
    \/ \E k \in DOMAIN life.ops : StartSpawn(k)
    \/ \E k \in DOMAIN life.ops : StopClear(k)
    \/ \E k \in DOMAIN life.ops : StopJoin(k)
    \/ \E k \in DOMAIN life.ops : StopWait(k)
    \/ \E l \in DOMAIN life.loops : LoopTest(l)
    \/ \E l \in DOMAIN life.loops : LoopCheck(l)
    \/ \E l \in DOMAIN life.loops : LoopSleep(l)

SpecLifecycle == InitLifecycle /\ [][NextLifecycle]_vars

\* The same, with every thread that can take a step eventually taking it.
LifecycleProgress ==
    /\ \A k \in 1 .. MaxOps :
          WF_vars(/\ k \in DOMAIN life.ops
                  /\ \/ StartCheck(k) \/ StartSet(k) \/ StartSpawn(k)
                     \/ StopClear(k) \/ StopJoin(k) \/ StopWait(k))
    /\ \A l \in 1 .. MaxOps :
          WF_vars(/\ l \in DOMAIN life.loops
                  /\ \/ LoopTest(l) \/ LoopCheck(l) \/ LoopSleep(l))

SpecLifecycleFair == SpecLifecycle /\ LifecycleProgress

-----------------------------------------------------------------------------
\* Properties

Terminal == {"completed", "failed"}

\* C1: the persisted status of every run only moves pending -> running ->
\* completed | failed: it never regresses, never skips running, and never
\* changes once it is completed or failed.
C1_StatusMonotonic ==
    [][\A r \in DOMAIN runs :
          /\ runs[r].status = "pending" => runs'[r].status \in {"pending", "running"}
          /\ runs[r].status = "running" => runs'[r].status \in {"running"} \cup Terminal
          /\ runs[r].status \in Terminal => runs'[r].status = runs[r].status]_vars

\* the handlers of one run are called one after the other, a step only after
\* every step of smaller order, on the context its predecessors left
C2_Sequential ==
    \A t \in DOMAIN tasks :
       LET k == tasks[t]
       IN  /\ Len(k.invoked) \in {k.pos, k.pos + 1}
           /\ \A j \in DOMAIN k.invoked :
                 /\ k.invoked[j].step = k.steps[j]
                 /\ \A i \in DOMAIN k.steps :
                       k.steps[i].order < k.invoked[j].step.order => i < j
                 /\ j > 1 => k.seen[j - 1] \subseteq k.seen[j]

\* C2: within one run the handlers are invoked one at a time in strictly
\* ascending order, each after every step of smaller order has returned, so
\* that it observes their context writes.
C2_StrictlyAscending ==
    /\ C2_Sequential
    /\ \A t \in DOMAIN tasks :
          \A i, j \in DOMAIN tasks[t].invoked :
             i < j => tasks[t].invoked[i].step.order < tasks[t].invoked[j].step.order

HandlerRaised(k) == k.error # "" /\ k.invoked # << >>

\* C3: when a step handler raises, the run ends failed with completed_at set,
\* and its logs hold the line naming the failing step and, after it, the line
\* with the error text.
C3_FailureRecorded ==
    \A t \in DOMAIN tasks :
       LET k == tasks[t]
       IN  HandlerRaised(k) =>
              LET r    == runs[k.run_id]
                  step == k.invoked[Len(k.invoked)].step
              IN  /\ r.status = "failed"
                  /\ r.completed_at # NULL
                  /\ \E i, j \in DOMAIN r.logs :
                        /\ i < j
                        /\ r.logs[i] = LogLine("step", step.name, step.step_type)
                        /\ r.logs[j] = LogLine("failed", "", k.error)

\* a handler raised in the second step of a run
C3_Witness ==
    \E t \in DOMAIN tasks : HandlerRaised(tasks[t]) /\ Len(tasks[t].invoked) = 2

\* C4: when the handler of step k raises, no later step is executed in that
\* run, the failing handler is not invoked again, and the exception leaves
\* run and execute_pipeline_task.
C4_FailureEndsRun ==
    \A t \in DOMAIN tasks :
       LET k == tasks[t]
       IN  HandlerRaised(k) =>
              /\ k.pc = "done"
              /\ k.result = "raised"
              /\ k.task = "failed"
              /\ Len(k.invoked) = k.pos + 1
              /\ \A i \in DOMAIN k.invoked : k.invoked[i].step = k.steps[i]

\* a handler raised while steps of greater order were still to come
C4_Witness ==
    \E t \in DOMAIN tasks :
       /\ HandlerRaised(tasks[t])
       /\ Len(tasks[t].invoked) < Len(tasks[t].steps)
       /\ tasks[t].steps[Len(tasks[t].steps)].order
             > tasks[t].invoked[Len(tasks[t].invoked)].step.order

HandlerFor(step_type) ==
    CASE step_type = "extraction"    -> "_step_extraction"
      [] step_type = "preprocessing" -> "_step_preprocessing"
      [] step_type = "training"      -> "_step_training"
      [] step_type = "prediction"    -> "_step_prediction"
      [] step_type = "save"          -> "_step_save"
      [] OTHER                       -> "none"

IntervalGap ==
    \A k, l \in DOMAIN triggers :
       LET p == pipelines[triggers[k].pipeline_id]
       IN  (k < l /\ triggers[k].pipeline_id = triggers[l].pipeline_id /\ IntervalMode(p)) =>
              triggers[l].poll - triggers[k].last_run >= p.schedule_interval

\* C6 as stated: the interval gap, and no trigger of a pipeline while a run
\* that the scheduler triggered for it earlier has not completed.
C6_NoTriggerBeforeCompletion ==
    /\ IntervalGap
    /\ sched.pc = "trigger" =>
          \A k \in DOMAIN triggers :
             triggers[k].pipeline_id = sched.list[sched.i] =>
                runs[triggers[k].run_id].status \in Terminal

\* C6 as amended: the interval gap, and a poll less than the interval after
\* the recorded last_run never triggers, whatever the state of the earlier run;
\* a trigger is decided only with last_run unset or the interval elapsed.
C6_IntervalGap ==
    /\ IntervalGap
    /\ lastEval.pipeline_id # NULL =>
          LET p == pipelines[lastEval.pipeline_id]
          IN  (/\ IntervalMode(p)
               /\ lastEval.last_run # NULL
               /\ lastEval.now - lastEval.last_run < p.schedule_interval)
                  => ~ lastEval.should_run
    /\ sched.pc \in {"trigger", "commit"} =>
          LET p == pipelines[sched.list[sched.i]]
          IN  IntervalMode(p) =>
                 \/ p.last_run = NULL
                 \/ sched.now - p.last_run >= p.schedule_interval

\* the pipeline was triggered a second time while the run of its first trigger
\* had not completed
C6_Witness ==
    \E k, l \in DOMAIN triggers :
       /\ k < l
       /\ triggers[k].pipeline_id = triggers[l].pipeline_id
       /\ runs[triggers[k].run_id].status \notin Terminal

\* C7: a daily-time pipeline is triggered at most once per calendar day: no two
\* of its triggers were decided by polls of the same date, nor recorded
\* last_run values of the same date.
C7_OncePerDay ==
    \A k, l \in DOMAIN triggers :
       (/\ k # l
        /\ triggers[k].pipeline_id = triggers[l].pipeline_id
        /\ DailyMode(pipelines[triggers[k].pipeline_id]))
           => /\ Date(triggers[k].poll) # Date(triggers[l].poll)
              /\ Date(triggers[k].last_run) # Date(triggers[l].last_run)

\* a poll inside the matching minute, on a day the pipeline was already
\* triggered, decided not to trigger
C7_Witness ==
    /\ lastEval.pipeline_id # NULL
    /\ DailyMode(pipelines[lastEval.pipeline_id])
    /\ pipelines[lastEval.pipeline_id].schedule_time = HHMM(lastEval.now)
    /\ ~ lastEval.should_run
    /\ \E k \in DOMAIN triggers :
          /\ triggers[k].pipeline_id = lastEval.pipeline_id
          /\ Date(triggers[k].poll) = Date(lastEval.now)

\* C8: whenever a (pipeline id, run id) has been submitted by the scheduler,
\* the pending run is persisted and the pipeline's last_run is advanced; both
\* are written by the one commit.
C8_CommitBeforeDispatch ==
    /\ \A t \in DOMAIN tasks :
          tasks[t].origin = "scheduler" =>
             /\ tasks[t].run_id \in DOMAIN runs
             /\ runs[tasks[t].run_id].pipeline_id = tasks[t].pipeline_id
             /\ \E k \in DOMAIN triggers :
                   /\ triggers[k].run_id = tasks[t].run_id
                   /\ triggers[k].pipeline_id = tasks[t].pipeline_id
                   /\ pipelines[tasks[t].pipeline_id].last_run # NULL
                   /\ pipelines[tasks[t].pipeline_id].last_run >= triggers[k].last_run
                   /\ triggers[k].last_run >= triggers[k].poll
    /\ \A k \in DOMAIN triggers :
          /\ triggers[k].run_id \in DOMAIN runs
          /\ pipelines[triggers[k].pipeline_id].last_run >= triggers[k].last_run
    /\ \A p \in DOMAIN pipelines :
          pipelines[p].last_run # NULL =>
             \E k \in DOMAIN triggers :
                /\ triggers[k].pipeline_id = p
                /\ triggers[k].last_run = pipelines[p].last_run
                /\ runs[triggers[k].run_id].pipeline_id = p

\* the scheduler has submitted a run
C8_Witness ==
    \E t \in DOMAIN tasks : tasks[t].origin = "scheduler"

\* C9: a poll cycle ends only after its last enabled pipeline was dealt with:
\* no exception from one pipeline keeps the remaining ones from being evaluated.
C9_CycleCoversEveryPipeline ==
    [][(sched.pc # "sleep" /\ sched'.pc = "sleep") => sched.i = Len(sched.list)]_vars

C11_DailyTrigger ==
    lastEval.pipeline_id # NULL =>
       LET p == pipelines[lastEval.pipeline_id]
       IN  DailyMode(p) =>
              /\ lastEval.should_run <=>
                    /\ HHMM(lastEval.now) = p.schedule_time
                    /\ \/ lastEval.last_run = NULL
                       \/ Date(lastEval.last_run) < Date(lastEval.now)
              /\ lastEval.should_run <=> sched.pc = "trigger"

\* a poll in the matching minute triggered a pipeline last run on an earlier day
C11_Witness ==
    /\ lastEval.pipeline_id # NULL
    /\ DailyMode(pipelines[lastEval.pipeline_id])
    /\ lastEval.last_run # NULL
    /\ Date(lastEval.last_run) < Date(lastEval.now)
    /\ lastEval.should_run
    /\ sched.pc = "trigger"

\* C12: a pipeline whose scheduling is disabled is never triggered: no step
\* taken while it is disabled changes its last_run, creates a run for it or
\* submits a task for it.
C12_DisabledNeverTriggered ==
    [][\A p \in DOMAIN pipelines :
          pipelines[p].schedule_enabled = 0 =>
             /\ pipelines'[p].last_run = pipelines[p].last_run
             /\ \A r \in DOMAIN runs' : r \notin DOMAIN runs => runs'[r].pipeline_id # p
             /\ \A t \in DOMAIN tasks' : t \notin DOMAIN tasks => tasks'[t].pipeline_id # p]_vars

\* C12, for a pipeline that no edit ever enables: it has no run, no last_run
\* and no task
C12_NeverEnabledNeverTriggered ==
    /\ pipelines[2].schedule_enabled = 0
    /\ pipelines[2].last_run = NULL
    /\ \A r \in DOMAIN runs : runs[r].pipeline_id # 2
    /\ \A t \in DOMAIN tasks : tasks[t].pipeline_id # 2
    /\ \A k \in DOMAIN triggers : triggers[k].pipeline_id # 2

\* C13: run_step(n) with n > 0 and no snapshot for (pipeline, n - 1): a step
\* that is not an extraction fails with the previous-step error, no handler is
\* executed and no snapshot is written; an extraction step is executed with an
\* empty context.
C13_PreviousStepNotRun ==
    [][calls' # calls =>
          LET c == calls'[Len(calls')]
          IN  (/\ c.step_type # "none"
               /\ c.order > 0
               /\ CachePath(c.pipeline_id, c.order - 1) \notin DOMAIN cache)
                 => IF c.step_type # "extraction"
                    THEN /\ c.error = "Previous step output not found"
                         /\ c.handler = "none"
                         /\ cache' = cache
                    ELSE /\ c.handler = "_step_extraction"
                         /\ c.input = EmptyContext]_vars

\* step 0 (extraction) succeeded, then run_step(2) of the training step was
\* called directly and failed with the previous-step error
C13_Witness ==
    \E k \in DOMAIN calls :
       /\ k > 1
       /\ calls[k - 1].order = 0 /\ calls[k - 1].step_type = "extraction" /\ calls[k - 1].error = ""
       /\ calls[k].pipeline_id = calls[k - 1].pipeline_id
       /\ calls[k].order = 2 /\ calls[k].step_type = "training"
       /\ calls[k].error = "Previous step output not found"
       /\ CachePath(calls[k].pipeline_id, 1) \notin DOMAIN cache

\* two successive successful run_step calls with the same arguments
Replayed(k) ==
    /\ k + 1 \in DOMAIN calls
    /\ calls[k].error = "" /\ calls[k + 1].error = ""
    /\ calls[k].pipeline_id = calls[k + 1].pipeline_id
    /\ calls[k].order = calls[k + 1].order
    /\ calls[k].override = calls[k + 1].override

\* C14 as stated: run_step(n) called twice in succession with the same override
\* yields the same preview and the same snapshot both times.
C14_ReplayIdentical ==
    \A k \in DOMAIN calls :
       Replayed(k) =>
          /\ calls[k].input = calls[k + 1].input
          /\ calls[k].output = calls[k + 1].output
          /\ calls[k].preview = calls[k + 1].preview

\* C14 as amended: both calls start from the same context (the snapshot of step
\* n - 1 is not modified) and leave the same context keys; for steps other than
\* training and prediction the snapshot and the preview are the same; a training
\* step stores a new run id each time.
C14_ReplayStable ==
    \A k \in DOMAIN calls :
       Replayed(k) =>
          /\ calls[k].input = calls[k + 1].input
          /\ calls[k].output.keys = calls[k + 1].output.keys
          /\ calls[k].step_type \notin {"training", "prediction"} =>
                /\ calls[k].output = calls[k + 1].output
                /\ calls[k].preview = calls[k + 1].preview
          /\ calls[k].step_type = "training" =>
                calls[k].output.run_id # calls[k + 1].output.run_id

\* a training step was tested twice in succession from the same snapshot and
\* the two previews differ
C14_Witness ==
    \E k \in DOMAIN calls :
       /\ Replayed(k)
       /\ calls[k].step_type = "training"
       /\ calls[k].order > 0
       /\ calls[k].input = calls[k + 1].input
       /\ calls[k].preview # calls[k + 1].preview

\* C15: a successful run_step(n) stores the resulting context as the snapshot of
\* (pipeline id, n), replacing an earlier one, and changes no other snapshot; a
\* run_step(n) that fails leaves all snapshots unchanged.
C15_SnapshotFrame ==
    [][calls' # calls =>
          LET c   == calls'[Len(calls')]
              key == CachePath(c.pipeline_id, c.order)
          IN  IF c.error = ""
              THEN /\ DOMAIN cache' = DOMAIN cache \cup {key}
                   /\ cache'[key] = c.output
                   /\ \A k \in DOMAIN cache : k # key => cache'[k] = cache[k]
              ELSE cache' = cache]_vars

\* C15, without its last clause for failures after the handler: the snapshot of
\* (pipeline id, n) is written exactly when the handler returned, no other
\* snapshot changes, and a call that fails before or inside the handler changes
\* nothing
C15_SnapshotWrittenAfterHandler ==
    [][calls' # calls =>
          LET c   == calls'[Len(calls')]
              key == CachePath(c.pipeline_id, c.order)
          IN  IF c.error \in {"", "preview"}
              THEN /\ DOMAIN cache' = DOMAIN cache \cup {key}
                   /\ cache'[key] = c.output
                   /\ \A k \in DOMAIN cache : k # key => cache'[k] = cache[k]
              ELSE cache' = cache]_vars

\* the loop threads that have not ended
ActiveLoops == {l \in DOMAIN life.loops : life.loops[l].pc # "exited"}

\* C16: after any sequence and interleaving of start() and stop() calls at most
\* one scheduler loop is active.
C16_AtMostOneLoop == Cardinality(ActiveLoops) <= 1

\* C16 for calls that do not overlap one another: at most one loop is active,
\* and a start() on a running scheduler spawns nothing
C16_AtMostOneLoopSequential ==
    (\A k \in DOMAIN life.ops : ~ life.ops[k].overlap) => Cardinality(ActiveLoops) <= 1

\* a stop() call that has returned, overlapped no other call and was followed
\* by no start()
StoppedBy(k) ==
    /\ life.ops[k].op = "stop"
    /\ life.ops[k].pc = "returned"
    /\ ~ life.ops[k].overlap
    /\ \A j \in DOMAIN life.ops : j > k => life.ops[j].op # "start"

\* C17: once stop() has returned (and the scheduler was not started again) the
\* loop has observed the flag and exited, so nothing is triggered any more.
C17_StopEndsTheLoop ==
    \A k \in DOMAIN life.ops : StoppedBy(k) => ActiveLoops = {}

\* C17 for a scheduler whose start() and stop() calls never overlapped
C17_StopEndsTheLoopSequential ==
    (\A j \in DOMAIN life.ops : ~ life.ops[j].overlap) =>
       \A k \in DOMAIN life.ops : StoppedBy(k) => ActiveLoops = {}

\* C17, termination: every stop() call returns, unless calls overlapped; this
\* covers stop() on a scheduler that is stopped or was never started
C17_StopReturnsSequential ==
    \A k \in 1 .. MaxOps :
       (k \in DOMAIN life.ops /\ life.ops[k].op = "stop")
          ~> (/\ k \in DOMAIN life.ops
              /\ \/ life.ops[k].pc = "returned"
                 \/ \E j \in DOMAIN life.ops : life.ops[j].overlap)

\* C18: when run is invoked for a run id that has no PipelineRun record, the
\* invocation ends at once with None returned to the task (which reports
\* success), no handler has been invoked, and no Pipeline or PipelineRun row
\* is changed by it.
C18_RunNotFound ==
    [][\A t \in DOMAIN tasks :
          (tasks[t].pc = "queued" /\ tasks[t].run_id \notin DOMAIN runs
              /\ tasks'[t].pc # "queued")
          => /\ tasks'[t].pc = "done"
             /\ tasks'[t].result = "none_returned"
             /\ tasks'[t].task = "success"
             /\ tasks'[t].invoked = << >>
             /\ runs' = runs
             /\ pipelines' = pipelines]_vars

\* an invocation for an absent run has returned, next to a run that exists
C18_Witness ==
    \E t \in DOMAIN tasks :
        /\ tasks[t].pc = "done"
        /\ tasks[t].result = "none_returned"
        /\ tasks[t].run_id \notin DOMAIN runs
        /\ runs # << >>

\* logs `later` keep every line of logs `earlier`, in place
Extends(later, earlier) ==
    /\ Len(later) >= Len(earlier)
    /\ SubSeq(later, 1, Len(earlier)) = earlier

\* C19: the logs of a run only ever grow: after every step, each run's logs
\* begin with the logs it had before the step.
C19_LogsAppendOnly ==
    [][\A r \in DOMAIN runs : Extends(runs'[r].logs, runs[r].logs)]_vars

\* C19, for the first invocation on a run: while a run has been served by one
\* invocation only, every step leaves its earlier lines in place.
C19_LogsAppendOnlyFirstInvocation ==
    [][\A r \in DOMAIN runs :
          Cardinality({t \in DOMAIN tasks' : tasks'[t].run_id = r /\ tasks'[t].pc # "queued"}) <= 1
          => Extends(runs'[r].logs, runs[r].logs)]_vars

\* C20: completed_at is set exactly when the status is completed or failed.
C20_CompletedAtIffTerminal ==
    \A r \in DOMAIN runs : (runs[r].completed_at # NULL) <=> (runs[r].status \in Terminal)

\* C20, one direction: a run whose status is terminal has completed_at set.
C20_TerminalHasCompletedAt ==
    \A r \in DOMAIN runs : (runs[r].status \in Terminal) => (runs[r].completed_at # NULL)

\* C21: an invocation of run that has returned or raised has released its
\* session.
C21_SessionReleased ==
    \A t \in DOMAIN tasks : tasks[t].pc = "done" => tasks[t].session = "closed"

\* C21, for the outcomes that pass through the try block: an invocation that
\* found its run has released its session when it has returned or raised.
C21_SessionReleasedRunFound ==
    \A t \in DOMAIN tasks :
        (tasks[t].pc = "done" /\ tasks[t].result # "none_returned")
        => tasks[t].session = "closed"

\* a call of run_step whose handler returned, so that its context was dumped
Dumped(c) == c.handler # "none" /\ c.error \in {"", "preview"}

\* C22: a snapshot is found under its pipeline id and step order alone. Every
\* path of the cache is such a pair; when a request's handler has returned,
\* the snapshot under its pair is the context of that request, whatever was
\* there and whoever wrote it; and a request for step n > 0 starts from the
\* snapshot under (pipeline id, n - 1) as it is at that moment.
C22_SnapshotKeyedByPipelineAndOrder ==
    [][/\ \A path \in DOMAIN cache' : path \in PipelineIds \X (0 .. MaxOrder)
       /\ (Len(calls') > Len(calls) /\ Dumped(calls'[Len(calls')]))
            => LET c == calls'[Len(calls')]
               IN  /\ CachePath(c.pipeline_id, c.order) \in DOMAIN cache'
                   /\ cache'[CachePath(c.pipeline_id, c.order)] = c.output
       /\ \A u \in Testers :
             (testers[u].pc = "idle" /\ testers'[u].pc = "loaded" /\ testers'[u].order > 0
                 /\ CachePath(testers'[u].pipeline_id, testers'[u].order - 1) \in DOMAIN cache)
             => testers'[u].context
                   = cache[CachePath(testers'[u].pipeline_id, testers'[u].order - 1)]]_vars

\* two requests for the same step of the same pipeline overlapped, the later
\* dump replaced the earlier one, and the tester whose snapshot was replaced
\* has begun the next step from the other tester's context
C22_Witness ==
    \E u \in Testers : \E v \in Testers \ {u} :
        \E i \in testers[u].made, j \in testers[v].made :
            /\ i < j
            /\ Dumped(calls[i]) /\ Dumped(calls[j])
            /\ calls[i].pipeline_id = calls[j].pipeline_id
            /\ calls[i].order = calls[j].order
            /\ calls[i].input = calls[j].input
            /\ calls[i].output # calls[j].output
            /\ testers[u].pc = "loaded"
            /\ testers[u].pipeline_id = calls[j].pipeline_id
            /\ testers[u].order = calls[j].order + 1
            /\ testers[u].context = calls[j].output

\* the steps of a list have pairwise different orders
DistinctOrders(steps) ==
    \A i, j \in DOMAIN steps : i # j => steps[i].order # steps[j].order

\* C23: no two steps of a pipeline have the same order.
C23_UniqueOrders ==
    \A p \in DOMAIN pipelines : DistinctOrders(pipelines[p].steps)

\* C23, as far as the handlers go: the steps a create or an update stores are
\* the steps of the request, in the order sent and unchanged.
C23_StepsStoredAsSent ==
    [][\A p \in DOMAIN pipelines' :
          (p \notin DOMAIN pipelines \/ pipelines'[p].steps # pipelines[p].steps)
          => pipelines'[p].steps \in StepLists]_vars

\* the context key a handler looks for first, and the error it raises without it
RequiredKey(h) ==
    CASE h = "_step_preprocessing" -> "data"
      [] h = "_step_save"          -> "data"
      [] h = "_step_training"      -> "X_train"
      [] OTHER                     -> "none"

MissingInputError(h) ==
    CASE h = "_step_preprocessing" -> "no_data"
      [] h = "_step_save"          -> "no_data"
      [] h = "_step_training"      -> "no_X_train"
      [] OTHER                     -> "none"

\* the j-th handler invoked by engine k found its required key absent
LacksInput(k, j) ==
    /\ RequiredKey(k.invoked[j].handler) # "none"
    /\ RequiredKey(k.invoked[j].handler) \notin k.seen[j]

\* C24: a preprocessing, save or training handler invoked on a context without
\* its required key raises the missing-input error of that handler (not an
\* error of its later work), is the last handler of the run, and leaves the
\* context as it found it.
C24_MissingInputFailsFast ==
    \A t \in DOMAIN tasks :
        \A j \in DOMAIN tasks[t].invoked :
            LacksInput(tasks[t], j)
            => /\ j = Len(tasks[t].invoked)
               /\ tasks[t].pc = "done"
               /\ tasks[t].result = "raised"
               /\ tasks[t].error = MissingInputError(tasks[t].invoked[j].handler)
               /\ tasks[t].context = tasks[t].seen[j]

\* a training handler and a save handler have each been invoked without their
\* key, one of them after earlier steps had filled the context
C24_Witness ==
    \E t, u \in DOMAIN tasks :
        /\ \E j \in DOMAIN tasks[t].invoked :
              /\ j > 1
              /\ tasks[t].invoked[j].handler = "_step_training"
              /\ LacksInput(tasks[t], j)
              /\ tasks[t].seen[j] # {}
        /\ \E j \in DOMAIN tasks[u].invoked :
              /\ tasks[u].invoked[j].handler \in {"_step_save", "_step_preprocessing"}
              /\ LacksInput(tasks[u], j)

\* C25: a step in which a run_step call returns or raises leaves the table of
\* runs as it was (no run created; status, logs and completed_at of every run
\* unchanged) and leaves the last_run of every pipeline unchanged.
C25_RunStepFrame ==
    [][Len(calls') > Len(calls)
        => /\ runs' = runs
           /\ \A p \in DOMAIN pipelines : pipelines'[p].last_run = pipelines[p].last_run]_vars

\* a step test has succeeded and another has failed while the pipeline had
\* been triggered and its run was being served
C25_Witness ==
    /\ \E r \in DOMAIN runs : runs[r].pipeline_id = 1 /\ runs[r].status = "running"
    /\ pipelines[1].last_run # NULL
    /\ \E k \in DOMAIN calls : calls[k].handler # "none" /\ calls[k].error = ""
    /\ \E k \in DOMAIN calls : calls[k].error # ""

\* C26: a step of a full run leaves every snapshot as it was, and the first
\* handler of every full run is invoked on the empty context, whatever
\* snapshots there are.
C26_FullRunIgnoresSnapshots ==
    [][/\ tasks' # tasks => cache' = cache
       /\ \A t \in DOMAIN tasks' :
             /\ tasks'[t].pc \in {"queued", "started"} => tasks'[t].context = {}
             /\ tasks'[t].seen # << >> => tasks'[t].seen[1] = {}]_vars

\* a scheduler-triggered run and a manual run of pipeline 1 have both invoked
\* handlers while snapshots of pipeline 1 were there
C26_Witness ==
    /\ CachePath(1, 0) \in DOMAIN cache
    /\ \E t, u \in DOMAIN tasks :
          /\ tasks[t].origin = "scheduler" /\ tasks[t].invoked # << >>
          /\ tasks[u].origin = "manual" /\ tasks[u].invoked # << >>

\* an execution of run that has loaded its run record and not yet returned
Active(k) == k.pc \in {"started", "loop", "handler"}

\* C27: no two executions of run for the same run id are active at the same
\* time.
C27_SingleWriter ==
    \A t, u \in DOMAIN tasks :
        (t # u /\ Active(tasks[t]) /\ Active(tasks[u])) => tasks[t].run_id # tasks[u].run_id

\* C27, for the dispatches the program itself makes: the scheduler and the
\* manual-run endpoint submit one task per run they create, each for a run id
\* of its own.
C27_OneTaskPerRun ==
    \A t, u \in DOMAIN tasks :
        (t # u /\ tasks[t].origin \in {"scheduler", "manual"}
               /\ tasks[u].origin \in {"scheduler", "manual"})
        => tasks[t].run_id # tasks[u].run_id

\* C28: a trigger whose commit fails leaves no trace: the step creates no run,
\* changes no pipeline and submits nothing; and every task the scheduler has
\* submitted is for a run that a committed trigger created for that pipeline.
C28_FailedTriggerRolledBack ==
    [][/\ (sched.pc = "commit" /\ sched'.pc # "dispatch")
            => (runs' = runs /\ pipelines' = pipelines /\ tasks' = tasks)
       /\ \A t \in DOMAIN tasks' :
             tasks'[t].origin = "scheduler"
             => \E g \in DOMAIN triggers' :
                   /\ triggers'[g].run_id = tasks'[t].run_id
                   /\ triggers'[g].pipeline_id = tasks'[t].pipeline_id
       /\ Len(runs') = Len(triggers')]_vars

\* the trigger of the first pipeline of a cycle failed at its commit (the
\* session is expired) and the cycle went on: no run, no last_run, no task
C28_Witness ==
    /\ sched.pc = "eval"
    /\ sched.i = 2
    /\ sched.expired
    /\ runs = << >>
    /\ tasks = << >>
    /\ \A p \in DOMAIN pipelines : pipelines[p].last_run = NULL

\* C29: every run that has been created eventually has status completed or
\* failed.
C29_EveryRunEnds ==
    \A r \in 1 .. MaxRuns :
        (r \in DOMAIN runs) ~> (r \in DOMAIN runs /\ runs[r].status \in Terminal)

\* C29, for the runs whose task reached the dispatcher: every run for which a
\* task has been submitted eventually has status completed or failed.
C29_EverySubmittedRunEnds ==
    \A r \in 1 .. MaxRuns :
        (\E t \in DOMAIN tasks : tasks[t].run_id = r)
        ~> (r \in DOMAIN runs /\ runs[r].status \in Terminal)

\* every pending run has a task submitted for it or about to be (it has not when
\* delay() raised after the run was committed)
C29_PendingRunHasTask ==
    \A r \in DOMAIN runs :
        runs[r].status = "pending"
        => \/ \E t \in DOMAIN tasks : tasks[t].run_id = r
           \/ sched.pc = "dispatch" /\ sched.run_id = r

\* a pipeline with a positive schedule_interval and a schedule_time
BothSet(p) ==
    p.schedule_interval # NULL /\ p.schedule_interval > 0 /\ p.schedule_time # NULL

\* a pipeline with neither a positive schedule_interval nor a schedule_time
NeitherSet(p) ==
    (p.schedule_interval = NULL \/ p.schedule_interval <= 0) /\ p.schedule_time = NULL

\* C30: an evaluation of a pipeline with both a positive schedule_interval and
\* a schedule_time triggers exactly when last_run is unset or the interval has
\* elapsed, whatever the time of day; an evaluation of a pipeline with neither
\* does not trigger, and no trigger was ever committed for such a pipeline.
C30_IntervalTakesPrecedence ==
    /\ lastEval.pipeline_id # NULL =>
          LET p == pipelines[lastEval.pipeline_id]
          IN  /\ BothSet(p) =>
                    /\ lastEval.should_run <=>
                          \/ lastEval.last_run = NULL
                          \/ lastEval.now - lastEval.last_run >= p.schedule_interval
                    /\ lastEval.should_run <=> sched.pc = "trigger"
              /\ NeitherSet(p) => (~ lastEval.should_run /\ sched.pc # "trigger")
    /\ \A g \in DOMAIN triggers : ~ NeitherSet(pipelines[triggers[g].pipeline_id])

\* a pipeline with both fields set, last run earlier, was triggered by a poll
\* outside its schedule_time minute
C30_Witness ==
    /\ lastEval.pipeline_id # NULL
    /\ BothSet(pipelines[lastEval.pipeline_id])
    /\ lastEval.last_run # NULL
    /\ HHMM(lastEval.now) # pipelines[lastEval.pipeline_id].schedule_time
    /\ lastEval.should_run
    /\ sched.pc = "trigger"

\* an enabled pipeline with neither field set has been evaluated
C30_NeitherEvaluated ==
    /\ lastEval.pipeline_id # NULL
    /\ NeitherSet(pipelines[lastEval.pipeline_id])
    /\ pipelines[lastEval.pipeline_id].schedule_enabled = 1

\* run r is pending and no task names it or is about to
Orphaned(r) ==
    /\ runs[r].status = "pending"
    /\ ~ \E t \in DOMAIN tasks : tasks[t].run_id = r
    /\ ~ (sched.pc = "dispatch" /\ sched.run_id = r)

\* a pending run without a task stays so at every step: nothing submits a task
\* for an existing run and nothing else writes its row
C29_OrphanStaysPending ==
    [][\A r \in DOMAIN runs :
          Orphaned(r) => (runs'[r] = runs[r] /\ ~ \E t \in DOMAIN tasks' : tasks'[t].run_id = r)]_vars

====
